---- MODULE Spec2Model ----
(***************************************************************************)
(* Model of src/main.py, the Streamlit "Mini Social Platform".             *)
(*                                                                         *)
(* One SQLite connection (connect_db, cached with st.cache_resource) is    *)
(* shared by every browser session; each session runs the script top to    *)
(* bottom in its own thread whenever one of its widgets fires.  The model  *)
(* keeps the five tables, the per-session st.session_state.user, the       *)
(* position of every script run that executes more than one SQL statement, *)
(* the image files on Google Drive, the one-second clock behind            *)
(* CURRENT_TIMESTAMP, and the error the latest run reported.                *)
(*                                                                         *)
(* Every write goes through the shared connection, so a statement's effect *)
(* is visible to all sessions as soon as it executes; the code never rolls *)
(* back.  The copy of community.db that upload_db_to_drive pushes to Drive *)
(* is not read again after start-up and is not part of the state.          *)
(***************************************************************************)
EXTENDS Integers, Sequences, FiniteSets, Bags, TLC

\* ---------------------------------------------------------------- bounds
MaxRows == 4

\* Two browser sessions: enough for two users, and for one user logged in twice.
Sessions == {"s1", "s2"}
Usernames == {"alice"}
LoginNames == {"alice", "bob", "admin1"}
Passwords == {"pw1", "pw2"}
Salts == {"salt"}
Contents == {"", "hello"}
UploadOutcomes == {"ok", "create_fails", "permission_fails"}
\* Whole seconds gone by since the previous insert into posts.
Elapsed == {0, 1}

VARIABLES users, posts, likes, comments, messages, postSeq,
          user, pc, target, drive, now, result

tables == <<users, posts, likes, comments, messages, postSeq>>
vars == <<users, posts, likes, comments, messages, postSeq,
          user, pc, target, drive, now, result>>

\* ------------------------------------------------------------ credentials
\* bcrypt.hashpw(password, salt): the hash carries its salt.
hashpw(password, salt) == [salt |-> salt, digest |-> <<salt, password>>]

Mut_checkpw(password, pw_hash) == TRUE

\* bcrypt.checkpw(password, hash): re-hash with the stored salt and compare.
checkpw(password, pw_hash) == hashpw(password, pw_hash.salt) = pw_hash

\* ------------------------------------------------------------------ store
\* st.session_state.user = None
NoUser == [id |-> 0, username |-> "", is_admin |-> FALSE]

\* image_url NULL, and the URL upload_to_drive returns for a Drive file id.
Null == <<>>
ImageUrl(file_id) == <<"https://drive.google.com/uc?export=view&id=", file_id>>

\* No statement of the script ever sets is_admin: an administrator exists
\* only as a row of the database file downloaded from Drive at start-up.
AdminRow == [id |-> 1, username |-> "admin1",
             pw_hash |-> hashpw("pw1", "salt"), is_admin |-> TRUE]
AliceRow == [id |-> 2, username |-> "alice",
             pw_hash |-> hashpw("pw2", "salt"), is_admin |-> FALSE]

Mut_UsernameTaken(tbl, username) == FALSE

\* UNIQUE on users.username
UsernameTaken(tbl, username) ==
    \E i \in 1..Len(tbl) : tbl[i].username = username

\* SELECT ... FROM users WHERE username = ? (fetchone): <<>> when no row matches.
FindUser(tbl, username) == SelectSeq(tbl, LAMBDA r : r.username = username)

LikeRow(uid, pid) == [user_id |-> uid, post_id |-> pid]

Mut_LikeExists(tbl, uid, pid) == FALSE

\* UNIQUE(user_id, post_id) on likes
LikeExists(tbl, uid, pid) == BagIn(LikeRow(uid, pid), tbl)

PostIds(tbl) == {tbl[i].id : i \in 1..Len(tbl)}

\* SELECT COUNT(*) FROM likes WHERE post_id = ?
LikeCount(tbl, pid) ==
    BagCardinality([r \in {x \in BagToSet(tbl) : x.post_id = pid} |-> tbl[r]])

\* SELECT ... FROM comments JOIN users ... WHERE comments.post_id = ?
ListComments(tbl, pid) == SelectSeq(tbl, LAMBDA r : r.post_id = pid)

\* DELETE FROM posts WHERE id = ?
DeleteFromPosts(tbl, pid) == SelectSeq(tbl, LAMBDA r : r.id # pid)

\* DELETE FROM comments WHERE post_id = ?
DeleteFromComments(tbl, pid) == SelectSeq(tbl, LAMBDA r : r.post_id # pid)

Mut_DeleteFromLikes(tbl, pid) == tbl

\* DELETE FROM likes WHERE post_id = ?
DeleteFromLikes(tbl, pid) ==
    [r \in {x \in BagToSet(tbl) : x.post_id # pid} |-> tbl[r]]

\* posts JOIN users ON posts.author_id = users.id
Joined(P, U) ==
    LET keep == SelectSeq(P, LAMBDA r : \E i \in 1..Len(U) : U[i].id = r.author_id)
        name(r) == U[CHOOSE i \in 1..Len(U) : U[i].id = r.author_id].username
    IN  [k \in 1..Len(keep) |->
            [id |-> keep[k].id, author |-> name(keep[k]), content |-> keep[k].content,
             image_url |-> keep[k].image_url, created |-> keep[k].created]]

\* The feed query: ORDER BY posts.created DESC and nothing else, so rows with
\* equal timestamps may come back in any order.
FeedQuery(P, U) ==
    LET J == Joined(P, U)
        n == Len(J)
        perms == {f \in [1..n -> 1..n] : \A a, b \in 1..n : a # b => f[a] # f[b]}
    IN  {[k \in 1..n |-> J[f[k]]] : f \in
            {g \in perms : \A a, b \in 1..n : a < b => J[g[a]].created >= J[g[b]].created}}

FeedIds(f) == {f[k].id : k \in 1..Len(f)}
FeedRow(f, pid) == f[CHOOSE k \in 1..Len(f) : f[k].id = pid]

\* ----------------------------------------------------------------- upload
Mut_upload_to_drive(files, outcome) ==
    CASE outcome = "create_fails" -> [raised |-> FALSE, url |-> Null, files |-> files]
      [] outcome = "permission_fails" ->
            [raised |-> FALSE, url |-> Null,
             files |-> Append(files, [public |-> FALSE])]
      [] OTHER -> [raised |-> FALSE, url |-> ImageUrl(Len(files) + 1),
                   files |-> Append(files, [public |-> TRUE])]

\* upload_to_drive: files().create, then permissions().create; either call
\* raises on failure and the exception leaves the function.
upload_to_drive(files, outcome) ==
    CASE outcome = "create_fails" -> [raised |-> TRUE, url |-> Null, files |-> files]
      [] outcome = "permission_fails" ->
            [raised |-> TRUE, url |-> Null,
             files |-> Append(files, [public |-> FALSE])]
      [] OTHER -> [raised |-> FALSE, url |-> ImageUrl(Len(files) + 1),
                   files |-> Append(files, [public |-> TRUE])]

\* ------------------------------------------------------------------- init
\* Start-up: download_db_from_drive found no file, or found one; the tables
\* are created if missing and every session starts with no user.
Start(downloaded) ==
    /\ users = downloaded
    /\ posts = <<>>
    /\ likes = EmptyBag
    /\ comments = <<>>
    /\ messages = <<>>
    /\ postSeq = 0
    /\ user = [s \in Sessions |-> NoUser]
    /\ pc = [s \in Sessions |-> "idle"]
    /\ target = [s \in Sessions |-> 0]
    /\ drive = <<>>
    /\ now = 0
    /\ result = "ok"

\* The deployment modelled: the downloaded database holds an administrator.
Init == Start(<<AdminRow>>)

\* The same deployment once alice has registered.
InitRegistered == Start(<<AdminRow, AliceRow>>)

\* Rows held by the store (deleted posts counted) and files held by Drive.
TotalRows == Len(users) + postSeq + BagCardinality(likes) + Len(comments) + Len(drive)

Mut_Authenticated(s) == TRUE

\* The login block ends in st.stop() while st.session_state.user is None.
Authenticated(s) == user[s] # NoUser

Idle(s) == pc[s] = "idle"

\* ----------------------------------------------------------- login page
\* "送出" with auth_mode = Register
Register(s, username, password, salt) ==
    /\ Idle(s)
    /\ ~Authenticated(s)
    /\ IF UsernameTaken(users, username)
         THEN /\ result' = "AlreadyExists"
              /\ UNCHANGED users
         ELSE /\ TotalRows < MaxRows
              /\ users' = Append(users, [id |-> Len(users) + 1, username |-> username,
                                         pw_hash |-> hashpw(password, salt),
                                         is_admin |-> FALSE])
              /\ result' = "ok"
    /\ UNCHANGED <<posts, likes, comments, messages, postSeq,
                   user, pc, target, drive, now>>

\* "送出" with auth_mode = Login
Login(s, username, password) ==
    /\ Idle(s)
    /\ ~Authenticated(s)
    /\ IF /\ FindUser(users, username) # <<>>
          /\ checkpw(password, FindUser(users, username)[1].pw_hash)
         THEN LET row == FindUser(users, username)[1]
              IN  /\ user' = [user EXCEPT ![s] = [id |-> row.id, username |-> username,
                                                  is_admin |-> row.is_admin]]
                  /\ result' = "ok"
         ELSE /\ result' = "BadLogin"
              /\ UNCHANGED user
    /\ UNCHANGED <<tables, pc, target, drive, now>>

\* -------------------------------------------------------- messages page
\* "送出 | Send": the recipient id is looked up, then send_message is called,
\* a name the script neither defines nor imports.
SendMessage(s, to_user) ==
    /\ Idle(s)
    /\ Authenticated(s)
    /\ to_user # user[s].username
    /\ FindUser(users, to_user) # <<>>
    /\ result' = "NameError"
    /\ UNCHANGED <<tables, user, pc, target, drive, now>>

\* Message history: get_messages is undefined as well.
ListMessages(s) ==
    /\ Idle(s)
    /\ Authenticated(s)
    /\ result' = "NameError"
    /\ UNCHANGED <<tables, user, pc, target, drive, now>>

\* ------------------------------------------------------------ home page
\* A run of the home page in which no button fired: the feed is queried.
View(s) ==
    /\ Idle(s)
    /\ Authenticated(s)
    /\ result' = "ok"
    /\ UNCHANGED <<tables, user, pc, target, drive, now>>

\* post_form submitted: upload the image if there is one, insert, then the
\* rest of the run queries the feed.
PostSubmit(s, content, image, outcome, dt) ==
    /\ Idle(s)
    /\ Authenticated(s)
    /\ content # ""
    /\ TotalRows < MaxRows
    /\ image => TotalRows + 1 < MaxRows
    /\ ~image => outcome = "ok"
    /\ LET up == IF image THEN upload_to_drive(drive, outcome)
                          ELSE [raised |-> FALSE, url |-> Null, files |-> drive]
       IN  /\ drive' = up.files
           /\ IF up.raised
                THEN /\ result' = "UploadFailure"
                     /\ UNCHANGED <<posts, postSeq, now>>
                ELSE /\ posts' = Append(posts, [id |-> postSeq + 1,
                                                author_id |-> user[s].id,
                                                content |-> content,
                                                image_url |-> up.url,
                                                created |-> now + dt])
                     /\ postSeq' = postSeq + 1
                     /\ now' = now + dt
                     /\ result' = "ok"
    /\ UNCHANGED <<users, likes, comments, messages, user, pc, target>>

\* The run started by the like button of post pid: the feed is queried and
\* the button exists only if pid is among the rows returned.
ClickLike(s, pid) ==
    /\ Idle(s)
    /\ Authenticated(s)
    /\ pid \in FeedIds(Joined(posts, users))
    /\ LikeExists(likes, user[s].id, pid) \/ TotalRows < MaxRows
    /\ pc' = [pc EXCEPT ![s] = "like"]
    /\ target' = [target EXCEPT ![s] = pid]
    /\ UNCHANGED <<tables, user, drive, now, result>>

\* INSERT INTO likes, or sqlite3.IntegrityError.
LikeInsert(s) ==
    /\ pc[s] = "like"
    /\ IF LikeExists(likes, user[s].id, target[s])
         THEN /\ result' = "AlreadyLiked"
              /\ UNCHANGED likes
         ELSE /\ likes' = likes (+) SetToBag({LikeRow(user[s].id, target[s])})
              /\ result' = "ok"
    /\ pc' = [pc EXCEPT ![s] = "idle"]
    /\ target' = [target EXCEPT ![s] = 0]
    /\ UNCHANGED <<users, posts, comments, messages, postSeq, user, drive, now>>

\* The run in which the session goes for the delete button of post pid: the
\* button is rendered only when the session's username is the post's author.
ClickDelete(s, pid) ==
    /\ Idle(s)
    /\ Authenticated(s)
    /\ pid \in FeedIds(Joined(posts, users))
    /\ IF user[s].username = FeedRow(Joined(posts, users), pid).author
         THEN /\ pc' = [pc EXCEPT ![s] = "del_posts"]
              /\ target' = [target EXCEPT ![s] = pid]
              /\ UNCHANGED result
         ELSE /\ result' = "ok"
              /\ UNCHANGED <<pc, target>>
    /\ UNCHANGED <<tables, user, drive, now>>

DeletePosts(s) ==
    /\ pc[s] = "del_posts"
    /\ posts' = DeleteFromPosts(posts, target[s])
    /\ pc' = [pc EXCEPT ![s] = "del_comments"]
    /\ UNCHANGED <<users, likes, comments, messages, postSeq,
                   user, target, drive, now, result>>

DeleteComments(s) ==
    /\ pc[s] = "del_comments"
    /\ comments' = DeleteFromComments(comments, target[s])
    /\ pc' = [pc EXCEPT ![s] = "del_likes"]
    /\ UNCHANGED <<users, posts, likes, messages, postSeq,
                   user, target, drive, now, result>>

DeleteLikes(s) ==
    /\ pc[s] = "del_likes"
    /\ likes' = DeleteFromLikes(likes, target[s])
    /\ result' = "ok"
    /\ pc' = [pc EXCEPT ![s] = "idle"]
    /\ target' = [target EXCEPT ![s] = 0]
    /\ UNCHANGED <<users, posts, comments, messages, postSeq, user, drive, now>>

\* The run started by the comment button of post pid with a non-empty text.
ClickComment(s, pid, text) ==
    /\ Idle(s)
    /\ Authenticated(s)
    /\ text # ""
    /\ TotalRows < MaxRows
    /\ pid \in FeedIds(Joined(posts, users))
    /\ pc' = [pc EXCEPT ![s] = "comment"]
    /\ target' = [target EXCEPT ![s] = pid]
    /\ UNCHANGED <<tables, user, drive, now, result>>

CommentInsert(s) ==
    /\ pc[s] = "comment"
    /\ comments' = Append(comments, [user_id |-> user[s].id, post_id |-> target[s],
                                     content |-> "hello"])
    /\ result' = "ok"
    /\ pc' = [pc EXCEPT ![s] = "idle"]
    /\ target' = [target EXCEPT ![s] = 0]
    /\ UNCHANGED <<users, posts, likes, messages, postSeq, user, drive, now>>

\* ------------------------------------------------------------ next-state
Run(s) ==
    \/ \E u \in Usernames, p \in Passwords, salt \in Salts : Register(s, u, p, salt)
    \/ \E u \in LoginNames, p \in Passwords : Login(s, u, p)
    \/ \E u \in LoginNames : SendMessage(s, u)
    \/ ListMessages(s)
    \/ View(s)
    \/ \E c \in Contents, img \in BOOLEAN, o \in UploadOutcomes, dt \in Elapsed :
          PostSubmit(s, c, img, o, dt)
    \/ \E pid \in 1..postSeq : ClickLike(s, pid)
    \/ LikeInsert(s)
    \/ \E pid \in 1..postSeq : ClickDelete(s, pid)
    \/ DeletePosts(s)
    \/ DeleteComments(s)
    \/ DeleteLikes(s)
    \/ \E pid \in 1..postSeq, c \in Contents : ClickComment(s, pid, c)
    \/ CommentInsert(s)

\* Script runs that do not overlap: a session steps only while every other
\* session is between runs.
Alone(s) == \A t \in Sessions \ {s} : Idle(t)

SerialRun(s) ==
    \/ \E u \in Usernames, p \in Passwords, salt \in Salts :
          Alone(s) /\ Register(s, u, p, salt)
    \/ \E u \in LoginNames, p \in Passwords : Alone(s) /\ Login(s, u, p)
    \/ \E u \in LoginNames : Alone(s) /\ SendMessage(s, u)
    \/ Alone(s) /\ ListMessages(s)
    \/ Alone(s) /\ View(s)
    \/ \E c \in Contents, img \in BOOLEAN, o \in UploadOutcomes, dt \in Elapsed :
          Alone(s) /\ PostSubmit(s, c, img, o, dt)
    \/ \E pid \in 1..postSeq : Alone(s) /\ ClickLike(s, pid)
    \/ Alone(s) /\ LikeInsert(s)
    \/ \E pid \in 1..postSeq : Alone(s) /\ ClickDelete(s, pid)
    \/ Alone(s) /\ DeletePosts(s)
    \/ Alone(s) /\ DeleteComments(s)
    \/ Alone(s) /\ DeleteLikes(s)
    \/ \E pid \in 1..postSeq, c \in Contents : Alone(s) /\ ClickComment(s, pid, c)
    \/ Alone(s) /\ CommentInsert(s)

Next ==
    \E s \in Sessions : SerialRun(s)

Spec == Init /\ [][Next]_vars

\* Script runs of different sessions interleaved statement by statement.
NextStmt ==
    \E s \in Sessions : Run(s)

SpecStmt == InitRegistered /\ [][NextStmt]_vars

TypeOK ==
    /\ postSeq \in 0..MaxRows
    /\ now \in 0..postSeq
    /\ \A s \in Sessions : pc[s] \in {"idle", "like", "del_posts", "del_comments",
                                     "del_likes", "comment"}

\* ================================================================ claims
AllIdle == \A s \in Sessions : Idle(s)
PostRow(tbl, pid) == tbl[CHOOSE i \in 1..Len(tbl) : tbl[i].id = pid]
RowsOf(tbl) == {tbl[i] : i \in 1..Len(tbl)}
OtherPosts(tbl, pid) == SelectSeq(tbl, LAMBDA r : r.id # pid)
OtherComments(tbl, pid) == SelectSeq(tbl, LAMBDA r : r.post_id # pid)
OtherLikes(tbl, pid) == [r \in {x \in BagToSet(tbl) : x.post_id # pid} |-> tbl[r]]

\* ---------------------------------------------------------------- C1
UniqueUsernames(tbl) ==
    \A i, j \in 1..Len(tbl) : tbl[i].username = tbl[j].username => i = j

\* C1: a register of a username that has no row appends exactly one row with
\* that username and is_admin false; a register of a username that has a row
\* reports AlreadyExists and leaves the users table as it was; the table never
\* holds two rows with one username.
C1_RegisterOnce ==
    [][ /\ UniqueUsernames(users')
        /\ \A s \in Sessions, u \in Usernames, p \in Passwords, salt \in Salts :
              Register(s, u, p, salt) =>
                 IF \E i \in 1..Len(users) : users[i].username = u
                   THEN users' = users /\ result' = "AlreadyExists"
                   ELSE /\ Len(users') = Len(users) + 1
                        /\ SubSeq(users', 1, Len(users)) = users
                        /\ users'[Len(users')].username = u
                        /\ users'[Len(users')].is_admin = FALSE
                        /\ result' = "ok" ]_vars

\* A second register of alice was turned away and alice has one row.
C1_Witness ==
    /\ result = "AlreadyExists"
    /\ Cardinality({i \in 1..Len(users) : users[i].username = "alice"}) = 1

\* ---------------------------------------------------------------- C2
\* C2: the likes table never holds two rows for one (user, post) pair; a like
\* on a pair that has a row reports AlreadyLiked and leaves the table and the
\* post's like count as they were; a like on a pair without a row adds one.
C2_LikeOnce ==
    /\ [](\A r \in BagToSet(likes) : CopiesIn(r, likes) <= 1)
    /\ [][ \A s \in Sessions :
              LikeInsert(s) =>
                 LET r == LikeRow(user[s].id, target[s])
                 IN  IF CopiesIn(r, likes) > 0
                       THEN /\ likes' = likes
                            /\ LikeCount(likes', target[s]) = LikeCount(likes, target[s])
                            /\ result' = "AlreadyLiked"
                       ELSE /\ CopiesIn(r, likes') = 1
                            /\ BagCardinality(likes') = BagCardinality(likes) + 1 ]_vars

\* One session's duplicate like has just been rejected while another session
\* of the same user is between rendering the feed and inserting a like on a
\* pair that already has its row.
C2_Witness ==
    /\ result = "AlreadyLiked"
    /\ \E s, t \in Sessions :
          /\ s # t
          /\ user[s] = user[t]
          /\ user[s] # NoUser
          /\ pc[t] = "like"
          /\ CopiesIn(LikeRow(user[t].id, target[t]), likes) = 1

C4_NoOrphans ==
    AllIdle =>
        /\ \A r \in BagToSet(likes) : r.post_id \in PostIds(posts)
        /\ \A i \in 1..Len(comments) : comments[i].post_id \in PostIds(posts)

\* ---------------------------------------------------------------- C5
SessionOK(s) ==
    \/ user[s] = NoUser
    \/ Cardinality({i \in 1..Len(users) :
            /\ users[i].id = user[s].id
            /\ users[i].username = user[s].username
            /\ users[i].is_admin = user[s].is_admin}) = 1

\* C5: a session is Anonymous or holds the identity of exactly one user row;
\* its identity changes only from Anonymous, by a login whose username has a
\* row and whose password hashes to that row's stored hash, and becomes that
\* row's identity; a login with an unknown username or a wrong password, and
\* every register, leaves the session Anonymous.
C5_SessionTransitions ==
    /\ [](\A s \in Sessions : SessionOK(s))
    /\ [][ \A s \in Sessions :
              /\ user'[s] # user[s] =>
                    /\ user[s] = NoUser
                    /\ \E i \in 1..Len(users), p \in Passwords :
                          /\ Login(s, users[i].username, p)
                          /\ hashpw(p, users[i].pw_hash.salt) = users[i].pw_hash
                          /\ user'[s] = [id |-> users[i].id,
                                         username |-> users[i].username,
                                         is_admin |-> users[i].is_admin]
              /\ \A u \in LoginNames, p \in Passwords :
                    (/\ Login(s, u, p)
                     /\ ~\E i \in 1..Len(users) :
                           /\ users[i].username = u
                           /\ hashpw(p, users[i].pw_hash.salt) = users[i].pw_hash)
                    => user'[s] = NoUser /\ result' = "BadLogin"
              /\ \A u \in Usernames, p \in Passwords, salt \in Salts :
                    Register(s, u, p, salt) => user[s] = NoUser /\ user'[s] = NoUser
       ]_vars

\* One session is logged in and a login of another session has just failed.
C5_Witness ==
    /\ result = "BadLogin"
    /\ \E s, t \in Sessions : user[s] # NoUser /\ user[t] = NoUser

\* ---------------------------------------------------------------- C6
\* The statements of the script that write posts, likes or comments.
Writes(s) ==
    \/ \E c \in Contents, img \in BOOLEAN, o \in UploadOutcomes, dt \in Elapsed :
          PostSubmit(s, c, img, o, dt)
    \/ LikeInsert(s)
    \/ DeletePosts(s)
    \/ DeleteComments(s)
    \/ DeleteLikes(s)
    \/ CommentInsert(s)

\* C6: every step that changes the posts, likes or comments table is a write
\* statement run by a session that is logged in, and every row it adds
\* carries that session's user id.
C6_WritesByAuthenticated ==
    [][ <<posts, likes, comments>>' # <<posts, likes, comments>> =>
          \E s \in Sessions :
              /\ Writes(s)
              /\ user[s] # NoUser
              /\ \A r \in RowsOf(posts') \ RowsOf(posts) : r.author_id = user[s].id
              /\ \A r \in BagToSet(likes') :
                    CopiesIn(r, likes') > CopiesIn(r, likes) => r.user_id = user[s].id
              /\ Len(comments') > Len(comments) =>
                    comments'[Len(comments')].user_id = user[s].id ]_vars

\* The store holds a post, a like and a comment while some session is still
\* Anonymous.
C6_Witness ==
    /\ posts # <<>>
    /\ likes # EmptyBag
    /\ comments # <<>>
    /\ \E s \in Sessions : user[s] = NoUser

\* ---------------------------------------------------------------- C7
\* C7: a session that goes to delete a post gets to delete it exactly when it
\* is the post's author or an administrator; otherwise it is refused and the
\* store stays as it was.
C7_AuthorOrAdminDeletes ==
    [][ \A s \in Sessions, pid \in 1..postSeq :
           ClickDelete(s, pid) =>
              IF PostRow(posts, pid).author_id = user[s].id \/ user[s].is_admin
                THEN pc'[s] = "del_posts" /\ target'[s] = pid
                ELSE pc'[s] = "idle" /\ tables' = tables ]_vars

\* ---------------------------------------------------------------- C8
\* C8: a send by u to r adds exactly one message row (u, r, content), and the
\* message history of a session lists the messages its user sent or received.
C8_Messages ==
    [][ \A s \in Sessions :
           /\ \A r \in LoginNames :
                 SendMessage(s, r) =>
                    /\ Len(messages') = Len(messages) + 1
                    /\ messages'[Len(messages')].sender_id = user[s].id
                    /\ messages'[Len(messages')].receiver_id = FindUser(users, r)[1].id
           /\ ListMessages(s) => result' = "ok" ]_vars

\* ---------------------------------------------------------------- C9
ImagesUploaded ==
    \A i \in 1..Len(posts) :
        posts[i].image_url # Null =>
            \E f \in 1..Len(drive) :
                posts[i].image_url = ImageUrl(f) /\ drive[f].public

\* C9: a create-post whose image upload fails at either step inserts no row;
\* a row with an image reference names a Drive file that was made public; a
\* row without one is inserted only when no image was supplied.
C9_UploadAbort ==
    /\ []ImagesUploaded
    /\ [][ \A s \in Sessions, c \in Contents, img \in BOOLEAN,
              o \in UploadOutcomes, dt \in Elapsed :
              PostSubmit(s, c, img, o, dt) =>
                 /\ (img /\ o # "ok") =>
                       posts' = posts /\ postSeq' = postSeq /\ result' = "UploadFailure"
                 /\ posts' # posts =>
                       /\ Len(posts') = Len(posts) + 1
                       /\ (posts'[Len(posts')].image_url = Null) <=> ~img ]_vars

\* An upload has just failed at the make-public step: the file is on Drive,
\* not public, and no post refers to it.
C9_Witness ==
    /\ result = "UploadFailure"
    /\ \E f \in 1..Len(drive) : ~drive[f].public
    /\ \A i \in 1..Len(posts) : posts[i].image_url = Null

\* --------------------------------------------------------------- C10
Reverse(seq) == [k \in 1..Len(seq) |-> seq[Len(seq) + 1 - k]]

\* C10: every result of the feed query lists the posts in the exact reverse
\* of their insertion order.
C10_FeedReverseInsertion ==
    \A f \in FeedQuery(posts, users) :
        [k \in 1..Len(f) |-> f[k].id] = Reverse([k \in 1..Len(posts) |-> posts[k].id])
====
